---- MODULE Spec2Model ----
(***************************************************************************)
(* A model of the learning journal (journal.py): the entries table, the    *)
(* auth-ticket cookie of the browser, and the views add_entry,             *)
(* read_entries, detail_entry, edit, login and logout.                     *)
(*                                                                         *)
(* Every request runs in one transaction (pyramid_tm): it is committed     *)
(* when the view returns and rolled back when an exception leaves it.      *)
(* add_entry is split where another request can be served between its      *)
(* reading of the clock (Entry.from_request) and its query for the row it  *)
(* answers with (Entry.desc_new); the other views are one step each.       *)
(***************************************************************************)
EXTENDS Integers, Sequences, FiniteSets, TLC

(* ---- bounds of the model ---- *)
MaxEntries == 2      \* values the id sequence hands out
MaxClock == 1        \* instants the clock goes through after instant 0

(* ---- values ---- *)
None == "None"       \* Python's None, also a request parameter that is missing
Threads == {1, 2}    \* the server threads; DBSession is a scoped (per thread) session
Titles == {None, "", "a"}
Texts == {None, "##p"}
Usernames == {None, "", "admin", "bob"}
Passwords == {None, "", "secret", "wrong"}
NoId == 0            \* a request without an id parameter
Ids == 0 .. MaxEntries
TicksPerDay == 2     \* clock instants that strftime('%b %d, %Y') maps to the same string

VARIABLES
    entries,     \* the committed rows of table entries
    nextId,      \* the next value of the sequence behind entries.id
    now,         \* datetime.datetime.utcnow()
    cookie,      \* the userid in the auth ticket the browser holds, or None
    session,     \* session[t]: the DBSession of the add_entry request thread t serves
    resp         \* the response sent last

vars == <<entries, nextId, now, cookie, session, resp>>

(* ---- configuration (main) ---- *)
Salt == "salt"
encode(password) == <<"$2a$10$", Salt, <<Salt, password>>>>
check(hashed, password) == hashed = <<"$2a$10$", hashed[2], <<hashed[2], password>>>>
auth_username == "admin"
auth_password == encode("secret")

(* ---- Python truth value: None, the empty string and False are false ---- *)
\* (do_login's True and False are written "True" and "False")
Truthy(v) == v \notin {None, "", "False"}

authenticated_userid == cookie

(* ---- Entry ---- *)
IsOrderedByCreatedDesc(s) == \A i \in 1 .. (Len(s) - 1) : s[i].created >= s[i + 1].created

\* the results ORDER BY created DESC allows over the rows S: rows of equal
\* created come in any order
OrderByCreatedDesc(S) ==
    {s \in [1 .. Cardinality(S) -> S] :
        /\ \A e \in S : \E i \in DOMAIN s : s[i] = e
        /\ IsOrderedByCreatedDesc(s)}

all(S) == OrderByCreatedDesc(S)

\* by_id as a bug would have it: a lookup that falls back to the rows at hand
by_id_or_any(S, id) == IF {e \in S : e.id = id} = {} THEN S ELSE {e \in S : e.id = id}

by_id(S, id) == {e \in S : e.id = id}

desc_new(S) == {s[1] : s \in OrderByCreatedDesc(S)}

from_request(title, text) == [title |-> title, text |-> text, created |-> now]

\* editing as a bug would have it: the edit stamps the row with the clock
editing_touches_created(e, title, text) ==
    [e EXCEPT !.title = title, !.text = text, !.created = now]

editing(e, title, text) == [e EXCEPT !.title = title, !.text = text]

markdown(text) ==
    CASE text = "" -> ""
      [] text = "##p" -> "<h2>p</h2>"
      [] OTHER -> "<p>" \o text \o "</p>"

strftime(created) == created \div TicksPerDay

json_detail(e) ==
    [title |-> e.title, text |-> markdown(e.text), created |-> strftime(e.created), id |-> e.id]

json_edit(e) ==
    [title |-> e.title, text |-> e.text, created |-> strftime(e.created), id |-> e.id]

\* columns title and text are nullable=False
NotNull(e) == e.title # None /\ e.text # None

(* ---- responses ---- *)
\* body: the entries the response shows; wrote: the rows the request committed
Response(op, method, status, error, body, wrote) ==
    [op |-> op, method |-> method, status |-> status, error |-> error,
     body |-> body, wrote |-> wrote]

Forbidden(op, method) == Response(op, method, 403, "", <<>>, <<>>)

\* an exception that leaves the view: the transaction is rolled back
Raised(op, method, exception) == Response(op, method, 500, exception, <<>>, <<>>)

Idle == [pc |-> "idle", new |-> [title |-> None, text |-> None, created |-> 0]]

Init ==
    /\ entries = {}
    /\ nextId = 1
    /\ now = 0
    /\ cookie = None
    /\ session = [t \in Threads |-> Idle]
    /\ resp = Response("none", "GET", 0, "", <<>>, <<>>)

(* ---- the clock ---- *)
Tick ==
    /\ now < MaxClock
    /\ now' = now + 1
    /\ UNCHANGED <<entries, nextId, cookie, session, resp>>

(* ---- POST /add ---- *)
\* add_entry as a bug would have it: without the test of authenticated_userid
add_entry_unchecked(t, title, text) ==
    /\ session[t].pc = "idle"
    /\ nextId + Cardinality({u \in Threads : session[u].pc = "added"}) <= MaxEntries
    /\ session' = [session EXCEPT ![t] = [pc |-> "added", new |-> from_request(title, text)]]
    /\ UNCHANGED <<entries, nextId, now, cookie, resp>>

\* add_entry up to the return of Entry.from_request
add_entry(t, title, text) ==
    /\ session[t].pc = "idle"
    /\ IF Truthy(authenticated_userid)
       THEN /\ nextId + Cardinality({u \in Threads : session[u].pc = "added"}) <= MaxEntries
            /\ session' = [session EXCEPT ![t] = [pc |-> "added", new |-> from_request(title, text)]]
            /\ UNCHANGED <<entries, nextId, now, cookie, resp>>
       ELSE /\ resp' = Forbidden("add", "POST")
            /\ UNCHANGED <<entries, nextId, now, cookie, session>>

\* add_entry from Entry.desc_new on: the query flushes the session (INSERT),
\* the view returns and the transaction commits
add_entry_desc_new(t) ==
    LET new == session[t].new
        inserted == [title |-> new.title, text |-> new.text, created |-> new.created,
                     id |-> nextId]
    IN
    /\ session[t].pc = "added"
    /\ session' = [session EXCEPT ![t] = Idle]
    /\ nextId' = nextId + 1
    /\ IF NotNull(new)
       THEN \E entry \in desc_new(entries \cup {inserted}) :
               /\ entries' = entries \cup {inserted}
               /\ resp' = Response("add", "POST", 200, "", <<json_detail(entry)>>, <<inserted>>)
       ELSE /\ entries' = entries
            /\ resp' = Raised("add", "POST", "IntegrityError")
    /\ UNCHANGED <<now, cookie>>

(* ---- GET / ---- *)
read_entries ==
    /\ \E s \in all(entries) : resp' = Response("home", "GET", 200, "", s, <<>>)
    /\ UNCHANGED <<entries, nextId, now, cookie, session>>

(* ---- GET /detail/{id} ---- *)
detail_entry(id) ==
    LET found == by_id(entries, id) IN
    /\ IF found = {}
       THEN resp' = Raised("detail", "GET", "NoResultFound")
       ELSE \E entry \in found : resp' = Response("detail", "GET", 200, "", <<entry>>, <<>>)
    /\ UNCHANGED <<entries, nextId, now, cookie, session>>

(* ---- GET|POST /edit ---- *)
edit(method, id, title, text) ==
    LET found == by_id(entries, id) IN
    /\ IF ~Truthy(authenticated_userid)
       THEN /\ resp' = Forbidden("edit", method)
            /\ entries' = entries
       ELSE IF found = {}
       THEN /\ resp' = Raised("edit", method, "NoResultFound")
            /\ entries' = entries
       ELSE \E entry \in found :
               IF method = "GET"
               THEN /\ resp' = Response("edit", method, 200, "", <<json_edit(entry)>>, <<>>)
                    /\ entries' = entries
               ELSE LET edited == editing(entry, title, text) IN
                    IF edited.text = None
                    THEN \* render_markdown fails on None
                         /\ resp' = Raised("edit", method, "AttributeError")
                         /\ entries' = entries
                    ELSE IF ~NotNull(edited)
                    THEN \* the UPDATE of the commit violates NOT NULL
                         /\ resp' = Raised("edit", method, "IntegrityError")
                         /\ entries' = entries
                    ELSE /\ resp' = Response("edit", method, 200, "", <<json_detail(edited)>>,
                                             <<edited>>)
                         /\ entries' = (entries \ {entry}) \cup {edited}
    /\ UNCHANGED <<nextId, now, cookie, session>>

(* ---- GET|POST /login ---- *)
\* do_login as a bug would have it: the username is not compared
do_login_any_username(username, password) ==
    IF ~(Truthy(username) /\ Truthy(password))
    THEN [raised |-> "ValueError", value |-> None]
    ELSE [raised |-> "", value |-> IF check(auth_password, password) THEN "True" ELSE "False"]

\* do_login: what it returns, or the exception it raises
do_login(username, password) ==
    IF ~(Truthy(username) /\ Truthy(password))
    THEN [raised |-> "ValueError", value |-> None]
    ELSE IF username = auth_username
    THEN [raised |-> "", value |-> IF check(auth_password, password) THEN "True" ELSE "False"]
    ELSE [raised |-> "", value |-> None]

remember(username) == IF username = None THEN "" ELSE username

\* login as a bug would have it: remember is called whatever do_login said
login_remembers_always(method, username, password) ==
    /\ cookie' = IF method = "POST" THEN remember(username) ELSE cookie
    /\ resp' = Response("login", method, 200, IF method = "POST" THEN "Login Failed" ELSE "",
                        <<>>, <<>>)
    /\ UNCHANGED <<entries, nextId, now, session>>

login(method, username, password) ==
    LET result == do_login(username, password)
        error == IF method # "POST" THEN ""
                 ELSE IF result.raised = "ValueError"
                 THEN "both username and password are required"
                 ELSE "Login Failed"
        authenticated == method = "POST" /\ result.raised = "" /\ Truthy(result.value)
    IN
    /\ IF authenticated
       THEN /\ cookie' = remember(username)
            /\ resp' = Response("login", method, 302, "", <<>>, <<>>)
       ELSE /\ cookie' = cookie
            /\ resp' = Response("login", method, 200, error, <<>>, <<>>)
    /\ UNCHANGED <<entries, nextId, now, session>>

(* ---- /logout ---- *)
forget == None

\* logout as a bug would have it: the redirect carries no forget headers
logout_keeps_ticket ==
    /\ cookie' = cookie
    /\ resp' = Response("logout", "GET", 302, "", <<>>, <<>>)
    /\ UNCHANGED <<entries, nextId, now, session>>

logout ==
    /\ cookie' = forget
    /\ resp' = Response("logout", "GET", 302, "", <<>>, <<>>)
    /\ UNCHANGED <<entries, nextId, now, session>>

Next ==
    \/ Tick
    \/ \E t \in Threads, title \in Titles, text \in Texts : add_entry(t, title, text)
    \/ \E t \in Threads : add_entry_desc_new(t)
    \/ read_entries
    \/ \E id \in Ids : detail_entry(id)
    \/ \E id \in Ids : edit("GET", id, None, None)
    \/ \E id \in Ids, title \in Titles, text \in Texts : edit("POST", id, title, text)
    \/ login("GET", None, None)
    \/ \E username \in Usernames, password \in Passwords : login("POST", username, password)
    \/ logout

Spec == Init /\ [][Next]_vars

(***************************************************************************)
(* The claims                                                              *)
(***************************************************************************)
Methods == {"GET", "POST"}
Present(v) == v \notin {None, ""}
Stored(id) == \E e \in entries : e.id = id
Range(s) == {s[i] : i \in DOMAIN s}

\* Every step of a view that answers sets resp to a response in its name; a
\* step of add_entry that does not answer opens a DBSession. The claims below
\* pick out the steps of a view by these marks before they evaluate the view.
ViewsAnswerInTheirName ==
    [][/\ \A t \in Threads, title \in Titles, text \in Texts :
             add_entry(t, title, text) => (resp'.op = "add" \/ session' # session)
       /\ \A t \in Threads : add_entry_desc_new(t) => resp'.op = "add"
       /\ \A method \in Methods, id \in Ids, title \in Titles, text \in Texts :
             edit(method, id, title, text) => (resp'.op = "edit" /\ resp'.method = method)
       /\ \A id \in Ids : detail_entry(id) => resp'.op = "detail"
       /\ \A method \in Methods, username \in Usernames, password \in Passwords :
             login(method, username, password) =>
                 (resp'.op = "login" /\ resp'.method = method)]_vars

IsAddOrEdit ==
    \E t \in Threads, method \in Methods, id \in Ids, title \in Titles, text \in Texts :
        add_entry(t, title, text) \/ edit(method, id, title, text)

IsEdit ==
    \E id \in Ids, title \in Titles, text \in Texts : edit(resp'.method, id, title, text)

\* C1: a request without a present identity to POST /add, GET /edit or
\* POST /edit is answered 403 Forbidden whatever its title, text and id are,
\* and leaves the stored entries as they were.
C1_ForbiddenWithoutIdentity ==
    [][(~Truthy(cookie) /\ (resp'.op \in {"add", "edit"} \/ session' # session)) =>
          \/ /\ resp'.status = 403
             /\ resp'.error = ""
             /\ entries' = entries
             /\ nextId' = nextId
             /\ session' = session
          \/ ~IsAddOrEdit]_vars

\* C1 witness: with entries stored, POST /add without identity was answered 403.
C1_Witness ==
    /\ entries # {}
    /\ ~Truthy(cookie)
    /\ resp = Forbidden("add", "POST")

\* C2: an entry keeps the id and the created timestamp it got when it was
\* created, through every step and every edit; ids stay unique; edit changes
\* only title and text, of one entry.
C2_CreatedAndIdFixed ==
    /\ [](\A e, f \in entries : e.id = f.id => e = f)
    /\ [][\A e \in entries : \E f \in entries' : f.id = e.id /\ f.created = e.created]_vars
    /\ [][resp'.op = "edit" =>
             \/ /\ {<<e.id, e.created>> : e \in entries'} = {<<e.id, e.created>> : e \in entries}
                /\ Cardinality(entries \ entries') <= 1
             \/ ~IsEdit]_vars

\* C2 witness: POST /edit rewrote an entry at a later clock instant than the
\* one it was created at, next to another entry.
C2_Witness ==
    /\ resp.op = "edit"
    /\ resp.status = 200
    /\ Len(resp.wrote) = 1
    /\ resp.wrote[1] \in entries
    /\ resp.wrote[1].created < now
    /\ Cardinality(entries) > 1

\* C3: GET / lists all stored entries ordered by created descending, and the
\* entry created last is the first of the list, also when another entry was
\* created at the same clock instant (of two entries with the same created,
\* the one created last is the one stored last, the one with the greater id).
C3_NewestFirst ==
    [][read_entries =>
          /\ Range(resp'.body) = entries
          /\ Len(resp'.body) = Cardinality(entries)
          /\ IsOrderedByCreatedDesc(resp'.body)
          /\ \A e \in entries :
                e # resp'.body[1] =>
                    \/ e.created < resp'.body[1].created
                    \/ (e.created = resp'.body[1].created /\ e.id < resp'.body[1].id)]_vars

\* C4: a successful POST /add answers with the detail representation of the
\* entry this request created (its id, its title), and GET /detail of that
\* id shows the same title.
C4_AddReturnsOwnEntry ==
    /\ [](resp.op = "add" /\ resp.status = 200 =>
             /\ Len(resp.body) = 1 /\ Len(resp.wrote) = 1
             /\ resp.body[1].id = resp.wrote[1].id
             /\ resp.body[1].title = resp.wrote[1].title)
    /\ [][(resp.op = "add" /\ resp.status = 200 /\ detail_entry(resp.wrote[1].id)) =>
             /\ resp'.status = 200
             /\ resp'.body[1].title = resp.wrote[1].title]_vars

\* C5: logout always succeeds (it is always possible and answers 302 without
\* an error) and leaves no identity; a second logout changes nothing; while
\* there is no identity POST /add and GET|POST /edit are answered 403, and an
\* identity comes back only by a POST /login that succeeds.
C5_Logout ==
    /\ [](ENABLED logout)
    /\ [][logout => /\ resp'.status = 302 /\ resp'.error = ""
                    /\ ~Truthy(cookie')
                    /\ UNCHANGED <<entries, nextId, now, session>>]_vars
    /\ [][(resp.op = "logout" /\ logout) => UNCHANGED vars]_vars
    /\ [](resp.op = "logout" => ~Truthy(cookie))
    /\ [][(~Truthy(cookie) /\ (resp'.op \in {"add", "edit"} \/ session' # session)) =>
             (resp'.status = 403 \/ ~IsAddOrEdit)]_vars
    /\ [][(~Truthy(cookie) /\ Truthy(cookie')) =>
             /\ resp'.op = "login" /\ resp'.status = 302
             /\ \E username \in Usernames, password \in Passwords :
                   login("POST", username, password)]_vars

\* C5 witness: after a login that stored an entry and a logout, POST /edit
\* was answered 403.
C5_Witness ==
    /\ entries # {}
    /\ ~Truthy(cookie)
    /\ resp = Forbidden("edit", "POST")

\* what POST /login answers to a pair do_login raises ValueError for, returns a
\* true value for, returns a false value for
AnswersTo(username, password) ==
    /\ resp'.error = "both username and password are required"
          <=> (~Present(username) \/ ~Present(password))
    /\ resp'.status = 302 <=> (username = auth_username /\ password = "secret")
    /\ resp'.error = "Login Failed"
          <=> /\ Present(username) /\ Present(password)
              /\ ~(username = auth_username /\ password = "secret")

\* C6: do_login raises ValueError exactly when username or password is empty
\* or missing; otherwise it returns a true value exactly when the username is
\* the configured one and the password verifies against the configured hash,
\* and a false value, without raising, for every other pair; POST /login
\* answers accordingly.
C6_Authenticate ==
    /\ [](\A username \in Usernames, password \in Passwords :
             LET result == do_login(username, password) IN
             /\ result.raised = "ValueError" <=> (~Present(username) \/ ~Present(password))
             /\ result.raised \in {"", "ValueError"}
             /\ result.raised = "" =>
                   (Truthy(result.value) <=>
                       (username = auth_username /\ check(auth_password, password)))
             /\ check(auth_password, password) <=> password = "secret")
    /\ [][(resp'.op = "login" /\ resp'.method = "POST") =>
             \A username \in Usernames, password \in Passwords :
                AnswersTo(username, password) \/ ~login("POST", username, password)]_vars

\* C6 witness: POST /login with a pair that is not the configured one was
\* answered "Login Failed".
C6_Witness ==
    /\ resp.op = "login"
    /\ resp.method = "POST"
    /\ resp.error = "Login Failed"

\* C7: an identity appears only by POST /login with the configured username
\* and password, answered 302, and it is the configured username; any other
\* login leaves the cookie as it was and answers 200 with the login page,
\* which shows an error message when the request was a POST; no login ends
\* with an exception.
C7_SessionOnlyByLogin ==
    /\ [](cookie \in {None, auth_username})
    /\ [][(cookie' # cookie /\ Truthy(cookie')) =>
             /\ login("POST", auth_username, "secret")
             /\ resp'.op = "login" /\ resp'.status = 302
             /\ cookie' = auth_username]_vars
    /\ [][resp'.op = "login" =>
             \A username \in Usernames, password \in Passwords :
                (resp'.method = "POST" /\ username = auth_username /\ password = "secret")
                \/ /\ cookie' = cookie
                   /\ resp'.status = 200
                   /\ resp'.method = "POST" => resp'.error # ""
                \/ ~login(resp'.method, username, password)]_vars

\* C7 witness: after a login and a logout, a POST /login that failed left the
\* browser without identity and showed the error message.
C7_Witness ==
    /\ entries # {}
    /\ ~Truthy(cookie)
    /\ resp.op = "login"
    /\ resp.method = "POST"
    /\ resp.status = 200
    /\ resp.error # ""

\* C8: every stored entry has a title and a text that are present and not
\* empty, and a request with a missing or empty title or text stores nothing.
C8_FullyPopulated ==
    /\ [](\A e \in entries : Present(e.title) /\ Present(e.text))
    /\ [][\A t \in Threads :
             (add_entry_desc_new(t)
                 /\ ~(Present(session[t].new.title) /\ Present(session[t].new.text)))
                 => entries' = entries]_vars
    /\ [][\A id \in Ids, title \in Titles, text \in Texts :
             (edit("POST", id, title, text) /\ ~(Present(title) /\ Present(text)))
                 => entries' = entries]_vars

\* C9: for an id that no stored entry has, GET /detail and, with an identity,
\* GET /edit and POST /edit fail with NoResultFound (the not-found error of
\* Entry.by_id), and the stored entries are as they were.
C9_NotFound ==
    /\ [][resp'.op = "detail" =>
             \A id \in Ids :
                \/ Stored(id)
                \/ (resp' = Raised("detail", "GET", "NoResultFound") /\ entries' = entries)
                \/ ~detail_entry(id)]_vars
    /\ [][(Truthy(cookie) /\ resp'.op = "edit") =>
             \/ (resp' = Raised("edit", resp'.method, "NoResultFound") /\ entries' = entries)
             \/ \A id \in Ids :
                   \/ Stored(id)
                   \/ ~\E title \in Titles, text \in Texts :
                          edit(resp'.method, id, title, text)]_vars

\* C9 witness: with an identity and entries stored, POST /edit of an id that
\* no entry has failed with NoResultFound.
C9_Witness ==
    /\ entries # {}
    /\ Truthy(cookie)
    /\ resp = Raised("edit", "POST", "NoResultFound")

\* C10: a POST /add with an identity and a valid title and text that succeeds
\* is answered with a redirect, 302, and its entry is stored.
C10_AddRedirects ==
    [][\A t \in Threads :
          (add_entry_desc_new(t) /\ Present(session[t].new.title) /\ Present(session[t].new.text))
              => /\ resp'.status = 302
                 /\ \E e \in entries' \ entries :
                       e.title = session[t].new.title /\ e.text = session[t].new.text]_vars

====
